---- MODULE Spec2Model ----
(***************************************************************************)
(* A model of lib/Sema/TypeCheckDistributed.cpp: the semantic checks of    *)
(* distributed actors (module gate, classification, function, constructor  *)
(* and property checks, and the orchestrating checkDistributedActor).      *)
(*                                                                         *)
(* A declaration tree is fixed by Init; every action is one call of one    *)
(* entry point of the file.  The diagnostic engine is the sequence diags,  *)
(* and history records, per call, what the call returned and emitted.      *)
(***************************************************************************)
EXTENDS Integers, Sequences, FiniteSets, TLC

\* ---------------------------------------------------------------- bounds
MaxMembers    == 2   \* user-written members of the class (actor checks)
MaxCtorParams == 3   \* parameters of a constructor (constructor checks)
MaxFuncParams == 2   \* parameters of a distributed function
MaxCalls      == 2   \* calls made in one behaviour
NumProtocols  == 2   \* protocols besides DistributedActor (classification)

VARIABLES
  moduleLoaded,  \* C.getLoadedModule(C.Id_Distributed) is non-null
  classDecl,     \* the class declaration (a NominalTypeDecl record)
  members,       \* decl->getMembers() of the class, in declaration order
  nominals,      \* the nominal declarations queried by isDistributedActor
  cache,         \* the evaluator's results of DistributedModuleIsAvailableRequest
  diags,         \* the diagnostics emitted so far, in emission order
  history        \* one record per call made so far

vars == <<moduleLoaded, classDecl, members, nominals, cache, diags, history>>

\* ------------------------------------------------------------ vocabulary
\* Identifiers of the ASTContext.
Id_actorTransport == "actorTransport"
Id_id             == "id"

\* Declarations are identified by their place: 0 is the class itself and
\* i >= 1 is its i-th member.
ClassId == 0

\* The types of the model, and the conformance table of the module.
\*   ActorTransport  the protocol's own (existential) type: it is equal to the
\*                   declared interface type and does not conform to itself
\*   SomeTransport   a concrete type conforming to ActorTransport
\*   String          Encodable and Decodable
\*   EncOnly/DecOnly one of the two only
\*   Opaque          no conformance; Void is the empty tuple, no conformance
CtorTypes == {"ActorTransport", "SomeTransport", "String"}
FuncTypes == {"Void", "String", "EncOnly", "DecOnly", "Opaque"}

conformsToProtocol(ty, protocol) ==
  CASE protocol = "Encodable"      -> ty \in {"String", "EncOnly"}
    [] protocol = "Decodable"      -> ty \in {"String", "DecOnly"}
    [] protocol = "ActorTransport" -> ty \in {"SomeTransport"}

isInvalid(conformance) == ~conformance

isVoid(ty) == ty = "Void"

\* protocolDecl->getDeclaredInterfaceType() of ActorTransport
protocolTy == "ActorTransport"

isEqual(ty, other) == ty = other

ParamNames == <<"a", "b", "c", "d", "e">>

\* A diagnostic: its kind, the declaration it is anchored on, its arguments.
Diag(kind, anchor, name, ty, n) ==
  [kind |-> kind, anchor |-> anchor, name |-> name, ty |-> ty, n |-> n]

\* A member declaration.
Member(kind, name, designated, params, result, synthesized, distributed) ==
  [kind |-> kind, name |-> name, designated |-> designated, params |-> params,
   result |-> result, synthesized |-> synthesized, distributed |-> distributed]

ParamLists(types, n) ==
  UNION {{[i \in 1..k |-> [name |-> ParamNames[i], ty |-> tys[i]]] :
             tys \in [1..k -> types]} : k \in 0..n}

SeqsUpTo(S, n) == UNION {[1..k -> S] : k \in 0..n}

\* One record of history.
Call(op, decl, diagnose, ret, emitted, before, after, cached) ==
  [op |-> op, decl |-> decl, diagnose |-> diagnose, ret |-> ret,
   emitted |-> emitted, before |-> before, after |-> after, cached |-> cached]

\* ------------------------------------------------- the availability gate
\* DistributedModuleIsAvailableRequest::evaluate
DistributedModuleIsAvailableRequest_evaluate(decl, loaded) ==
  IF loaded
    THEN [ret |-> TRUE, emitted |-> <<>>]
    ELSE [ret |-> FALSE,
          emitted |-> <<Diag("distributed_actor_needs_explicit_distributed_import",
                             decl, "", "", 0)>>]

\* evaluateOrDefault on a cached request: the first request for a key
\* evaluates and stores, a later one returns the stored value.
evaluateOrDefault(c, decl, loaded) ==
  IF decl \in DOMAIN c
    THEN [ret |-> c[decl], emitted |-> <<>>, cache |-> c]
    ELSE LET r == DistributedModuleIsAvailableRequest_evaluate(decl, loaded)
         IN  [ret |-> r.ret, emitted |-> r.emitted,
              cache |-> [d \in DOMAIN c \cup {decl} |->
                           IF d = decl THEN r.ret ELSE c[d]]]

\* A variant of ensureDistributedModuleLoaded that runs the request's evaluate
\* directly instead of going through the evaluator.
ensureDistributedModuleLoaded_Direct(c, decl, loaded) ==
  LET r == DistributedModuleIsAvailableRequest_evaluate(decl, loaded)
  IN  [ret |-> r.ret, emitted |-> r.emitted, cache |-> c]

\* swift::ensureDistributedModuleLoaded
ensureDistributedModuleLoaded(c, decl, loaded) ==
  evaluateOrDefault(c, decl, loaded)

\* --------------------------------------------------- classification
\* The index of the well-known DistributedActor protocol in nominals.
DistributedActorDecl == 1

\* ProtocolDecl::inheritsFrom: transitive inheritance over the inherited lists.
RECURSIVE inheritsFrom(_, _, _)
inheritsFrom(ns, p, target) ==
  \E q \in ns[p].inherited : q = target \/ inheritsFrom(ns, q, target)

\* A variant of IsDistributedActorRequest::evaluate without the comparison of
\* the protocol with DistributedActor itself.
IsDistributedActorRequest_evaluate_InheritsOnly(ns, self, nominal) ==
  IF nominal.kind = "protocol"
    THEN inheritsFrom(ns, self, DistributedActorDecl)
    ELSE IF nominal.kind # "class"
      THEN FALSE
      ELSE nominal.explicitDistributedActor

\* IsDistributedActorRequest::evaluate; nominal is a declaration record, self
\* its index in ns when it is a protocol.
IsDistributedActorRequest_evaluate(ns, self, nominal) ==
  IF nominal.kind = "protocol"
    THEN self = DistributedActorDecl \/ inheritsFrom(ns, self, DistributedActorDecl)
    ELSE IF nominal.kind # "class"
      THEN FALSE
      ELSE nominal.explicitDistributedActor

\* IsDistributedFuncRequest::evaluate
IsDistributedFuncRequest_evaluate(func) ==
  IF func.distributed THEN TRUE ELSE FALSE

\* --------------------------------------------- the function validator
\* ClassDecl::lookupDirectRemoteFunc: the member function of the class named
\* "_remote_" + the base name of func; 0 when the class declares none.
RemoteName(name) == "_remote_" \o name

lookupDirectRemoteFunc(mems, func) ==
  LET found == {j \in 1..Len(mems) :
                  mems[j].kind = "func" /\ mems[j].name = RemoteName(func.name)}
  IN  IF found = {} THEN 0 ELSE CHOOSE j \in found : \A k \in found : j <= k

\* A variant of the parameter loop that diagnoses and goes on to the next
\* parameter instead of returning.
RECURSIVE checkDistributedFunctionParams_NoReturn(_, _, _, _)
checkDistributedFunctionParams_NoReturn(func, anchor, i, diagnose) ==
  IF i > Len(func.params)
    THEN [ret |-> FALSE, emitted |-> <<>>]
    ELSE LET param == func.params[i]
             rest  == checkDistributedFunctionParams_NoReturn(func, anchor, i + 1,
                                                              diagnose)
         IN
      IF isInvalid(conformsToProtocol(param.ty, "Encodable")) \/
         isInvalid(conformsToProtocol(param.ty, "Decodable"))
        THEN [ret |-> TRUE,
              emitted |-> (IF diagnose
                THEN <<Diag("distributed_actor_func_param_not_codable",
                            anchor, param.name, param.ty, 0)>>
                ELSE <<>>) \o rest.emitted]
        ELSE rest

\* The loop over the parameters of checkDistributedFunction, from parameter i
\* on: it returns at the first parameter without both conformances.
RECURSIVE checkDistributedFunctionParams(_, _, _, _)
checkDistributedFunctionParams(func, anchor, i, diagnose) ==
  IF i > Len(func.params)
    THEN [ret |-> FALSE, emitted |-> <<>>]
    ELSE LET param == func.params[i] IN
      IF isInvalid(conformsToProtocol(param.ty, "Encodable")) \/
         isInvalid(conformsToProtocol(param.ty, "Decodable"))
        THEN [ret |-> TRUE,
              emitted |-> IF diagnose
                THEN <<Diag("distributed_actor_func_param_not_codable",
                            anchor, param.name, param.ty, 0)>>
                ELSE <<>>]
        ELSE checkDistributedFunctionParams(func, anchor, i + 1, diagnose)

\* A variant of checkDistributedFunction whose _remote check returns inside
\* the 'if (diagnose)' block.
checkDistributedFunction_ReturnInDiagnose(mems, f, diagnose) ==
  LET func == mems[f]
      ps   == checkDistributedFunctionParams(func, f, 1, diagnose)
      remoteFuncDecl == lookupDirectRemoteFunc(mems, func)
  IN  IF ps.ret THEN ps
      ELSE IF ~isVoid(func.result) /\
              (isInvalid(conformsToProtocol(func.result, "Decodable")) \/
               isInvalid(conformsToProtocol(func.result, "Encodable")))
        THEN [ret |-> TRUE,
              emitted |-> IF diagnose
                THEN <<Diag("distributed_actor_func_result_not_codable",
                            f, "", func.result, 0)>>
                ELSE <<>>]
      ELSE IF remoteFuncDecl # 0 /\ ~mems[remoteFuncDecl].synthesized /\ diagnose
        THEN [ret |-> TRUE,
              emitted |-> <<Diag("distributed_actor_remote_func_implemented_manually",
                                 f, func.name, RemoteName(func.name), 0)>>]
      ELSE [ret |-> FALSE, emitted |-> <<>>]

\* A variant of checkDistributedFunction without the isVoid test on the result.
checkDistributedFunction_NoVoid(mems, f, diagnose) ==
  LET func == mems[f]
      ps   == checkDistributedFunctionParams(func, f, 1, diagnose)
      remoteFuncDecl == lookupDirectRemoteFunc(mems, func)
  IN  IF ps.ret THEN ps
      ELSE IF isInvalid(conformsToProtocol(func.result, "Decodable")) \/
              isInvalid(conformsToProtocol(func.result, "Encodable"))
        THEN [ret |-> TRUE,
              emitted |-> IF diagnose
                THEN <<Diag("distributed_actor_func_result_not_codable",
                            f, "", func.result, 0)>>
                ELSE <<>>]
      ELSE IF remoteFuncDecl # 0 /\ ~mems[remoteFuncDecl].synthesized
        THEN [ret |-> TRUE,
              emitted |-> IF diagnose
                THEN <<Diag("distributed_actor_remote_func_implemented_manually",
                            f, func.name, RemoteName(func.name), 0)>>
                ELSE <<>>]
      ELSE [ret |-> FALSE, emitted |-> <<>>]

\* swift::checkDistributedFunction on member f of the class; ret is TRUE when
\* there is a problem.
checkDistributedFunction(mems, f, diagnose) ==
  LET func == mems[f]
      ps   == checkDistributedFunctionParams(func, f, 1, diagnose)
      remoteFuncDecl == lookupDirectRemoteFunc(mems, func)
  IN  IF ps.ret THEN ps
      ELSE IF ~isVoid(func.result) /\
              (isInvalid(conformsToProtocol(func.result, "Decodable")) \/
               isInvalid(conformsToProtocol(func.result, "Encodable")))
        THEN [ret |-> TRUE,
              emitted |-> IF diagnose
                THEN <<Diag("distributed_actor_func_result_not_codable",
                            f, "", func.result, 0)>>
                ELSE <<>>]
      ELSE IF remoteFuncDecl # 0 /\ ~mems[remoteFuncDecl].synthesized
        THEN [ret |-> TRUE,
              emitted |-> IF diagnose
                THEN <<Diag("distributed_actor_remote_func_implemented_manually",
                            f, func.name, RemoteName(func.name), 0)>>
                ELSE <<>>]
      ELSE [ret |-> FALSE, emitted |-> <<>>]

\* --------------------------------------------- the property validator
\* A variant of the property loop that stops at the first reserved name.
RECURSIVE checkDistributedActorPropertiesFrom_Break(_, _)
checkDistributedActorPropertiesFrom_Break(mems, i) ==
  IF i > Len(mems) THEN <<>>
  ELSE LET member == mems[i] IN
       IF member.kind = "var" /\
          (member.name = Id_actorTransport \/ member.name = Id_id)
         THEN <<Diag("distributed_actor_user_defined_special_property",
                     i, member.name, "", 0)>>
         ELSE checkDistributedActorPropertiesFrom_Break(mems, i + 1)

\* swift::checkDistributedActorProperties, from member i on: one diagnostic,
\* on the property, for every VarDecl named actorTransport or id.
RECURSIVE checkDistributedActorPropertiesFrom(_, _)
checkDistributedActorPropertiesFrom(mems, i) ==
  IF i > Len(mems) THEN <<>>
  ELSE LET member == mems[i]
           here == IF member.kind = "var" /\
                      (member.name = Id_actorTransport \/ member.name = Id_id)
                     THEN <<Diag("distributed_actor_user_defined_special_property",
                                 i, member.name, "", 0)>>
                     ELSE <<>>
       IN  here \o checkDistributedActorPropertiesFrom(mems, i + 1)

checkDistributedActorProperties(mems) ==
  checkDistributedActorPropertiesFrom(mems, 1)

\* ------------------------------------------- the constructor validator
\* A variant of the counting loop without the isEqual test: only conformance
\* counts.
RECURSIVE transportParamsCount_ConformanceOnly(_, _)
transportParamsCount_ConformanceOnly(params, i) ==
  IF i > Len(params) THEN 0
  ELSE (IF ~isInvalid(conformsToProtocol(params[i].ty, "ActorTransport"))
          THEN 1 ELSE 0)
       + transportParamsCount_ConformanceOnly(params, i + 1)

\* The counting loop of checkDistributedActorConstructor: the parameters whose
\* type is the protocol's type or conforms to it, from parameter i on.
RECURSIVE transportParamsCount(_, _)
transportParamsCount(params, i) ==
  IF i > Len(params) THEN 0
  ELSE (IF isEqual(params[i].ty, protocolTy) \/
           ~isInvalid(conformsToProtocol(params[i].ty, "ActorTransport"))
          THEN 1 ELSE 0)
       + transportParamsCount(params, i + 1)

\* A variant of checkDistributedActorConstructor without the isDesignatedInit
\* test.
checkDistributedActorConstructor_AnyInit(decl, mems, c) ==
  LET ctor == mems[c]
      n    == transportParamsCount(ctor.params, 1)
  IN  IF ~IsDistributedActorRequest_evaluate(<<>>, 0, decl) THEN <<>>
      ELSE IF n = 0
        THEN <<Diag("distributed_actor_designated_ctor_missing_transport_param",
                    c, ctor.name, "", 0)>>
      ELSE IF n = 1 THEN <<>>
      ELSE <<Diag("distributed_actor_designated_ctor_must_have_one_transport_param",
                  c, ctor.name, "", n)>>

\* swift::checkDistributedActorConstructor on member c of class decl.
checkDistributedActorConstructor(decl, mems, c) ==
  LET ctor == mems[c]
      n    == transportParamsCount(ctor.params, 1)
  IN  IF ~IsDistributedActorRequest_evaluate(<<>>, 0, decl) THEN <<>>
      ELSE IF ~ctor.designated THEN <<>>
      ELSE IF n = 0
        THEN <<Diag("distributed_actor_designated_ctor_missing_transport_param",
                    c, ctor.name, "", 0)>>
      ELSE IF n = 1 THEN <<>>
      ELSE <<Diag("distributed_actor_designated_ctor_must_have_one_transport_param",
                  c, ctor.name, "", n)>>

\* ------------------------------------------------ the actor checker
\* ClassDecl::getDefaultInitializer: a class without any constructor gets the
\* implicit designated 'init(transport:)', appended to its members.
DefaultInitializer ==
  Member("ctor", "init", TRUE,
         <<[name |-> "transport", ty |-> "ActorTransport"]>>, "Void", TRUE, FALSE)

getDefaultInitializer(mems) ==
  IF \E i \in 1..Len(mems) : mems[i].kind = "ctor"
    THEN mems
    ELSE Append(mems, DefaultInitializer)

\* swift::addImplicitDistributedActorMembersToClass: appends the implicit id
\* and actorTransport properties, once per class.
ImplicitProperty(name) == Member("var", name, FALSE, <<>>, "Void", TRUE, FALSE)

addImplicitDistributedActorMembersToClass(mems) ==
  IF \E i \in 1..Len(mems) : mems[i].kind = "var" /\ mems[i].synthesized
    THEN mems
    ELSE mems \o <<ImplicitProperty(Id_id), ImplicitProperty(Id_actorTransport)>>

\* The loop over the members of checkDistributedActor, from member i on: the
\* constructor check on every ConstructorDecl.
RECURSIVE checkAllConstructors(_, _, _)
checkAllConstructors(decl, mems, i) ==
  IF i > Len(mems) THEN <<>>
  ELSE (IF mems[i].kind = "ctor"
          THEN checkDistributedActorConstructor(decl, mems, i) ELSE <<>>)
       \o checkAllConstructors(decl, mems, i + 1)

\* A variant of checkDistributedActor that goes on after a failed gate.
checkDistributedActor_NoReturn(c, decl, mems, loaded) ==
  LET gate == ensureDistributedModuleLoaded(c, ClassId, loaded)
      withInit == getDefaultInitializer(mems)
  IN  [emitted |-> gate.emitted
                   \o checkAllConstructors(decl, withInit, 1)
                   \o checkDistributedActorProperties(withInit),
       cache   |-> gate.cache,
       members |-> addImplicitDistributedActorMembersToClass(withInit)]

\* A variant of checkDistributedActor that checks the properties before the
\* constructors.
checkDistributedActor_PropertiesFirst(c, decl, mems, loaded) ==
  LET gate == ensureDistributedModuleLoaded(c, ClassId, loaded)
      withInit == getDefaultInitializer(mems)
  IN  IF ~gate.ret
        THEN [emitted |-> gate.emitted, cache |-> gate.cache, members |-> mems]
        ELSE [emitted |-> gate.emitted
                          \o checkDistributedActorProperties(withInit)
                          \o checkAllConstructors(decl, withInit, 1),
              cache   |-> gate.cache,
              members |-> addImplicitDistributedActorMembersToClass(withInit)]

\* TypeChecker::checkDistributedActor
checkDistributedActor(c, decl, mems, loaded) ==
  LET gate == ensureDistributedModuleLoaded(c, ClassId, loaded)
      withInit == getDefaultInitializer(mems)
  IN  IF ~gate.ret
        THEN [emitted |-> gate.emitted, cache |-> gate.cache, members |-> mems]
        ELSE [emitted |-> gate.emitted
                          \o checkAllConstructors(decl, withInit, 1)
                          \o checkDistributedActorProperties(withInit),
              cache   |-> gate.cache,
              members |-> addImplicitDistributedActorMembersToClass(withInit)]

\* ======================================================== the state machine
NoClass == [kind |-> "class", explicitDistributedActor |-> FALSE, inherited |-> {}]

ClassDecls ==
  {[kind |-> "class", explicitDistributedActor |-> b, inherited |-> {}] :
     b \in BOOLEAN}

Param(name, ty) == [name |-> name, ty |-> ty]

\* The members a class of the actor checks may declare: constructors with
\* no, one and two transport parameters, designated or convenience; properties
\* with a reserved name and another name; a method named like a property.
ActorMembers ==
  {Member("ctor", "init", d, ps, "Void", FALSE, FALSE) :
     d \in BOOLEAN,
     ps \in {<<>>, <<Param("a", "SomeTransport")>>,
             <<Param("a", "SomeTransport"), Param("b", "ActorTransport")>>}}
  \cup {Member("var", n, FALSE, <<>>, "Void", FALSE, FALSE) :
          n \in {Id_actorTransport, Id_id, "name"}}
  \cup {Member("func", Id_id, FALSE, <<>>, "Void", FALSE, FALSE)}

Common ==
  /\ cache = <<>>
  /\ diags = <<>>
  /\ history = <<>>

InitActor ==
  /\ moduleLoaded \in BOOLEAN
  /\ classDecl \in ClassDecls
  /\ members \in SeqsUpTo(ActorMembers, MaxMembers)
  /\ nominals = <<>>
  /\ Common

InitCtor ==
  /\ moduleLoaded = TRUE
  /\ classDecl \in ClassDecls
  /\ members \in {<<Member("ctor", "init", d, ps, "Void", FALSE, FALSE)>> :
                    d \in BOOLEAN, ps \in ParamLists(CtorTypes, MaxCtorParams)}
  /\ nominals = <<>>
  /\ Common

\* A distributed function f of a distributed actor class, alone or with a
\* function named _remote_f or _remote_g, written by hand or synthesized,
\* declared before or after it.
DistributedFuncs ==
  {Member("func", "f", FALSE, ps, r, FALSE, TRUE) :
     ps \in ParamLists(FuncTypes, MaxFuncParams), r \in FuncTypes}

RemoteFuncs ==
  {Member("func", n, FALSE, <<>>, "Void", syn, FALSE) :
     n \in {"_remote_f", "_remote_g"}, syn \in BOOLEAN}

InitFunc ==
  /\ moduleLoaded = TRUE
  /\ classDecl = [kind |-> "class", explicitDistributedActor |-> TRUE,
                  inherited |-> {}]
  /\ members \in {<<f>> : f \in DistributedFuncs}
                 \cup {<<f, r>> : f \in DistributedFuncs, r \in RemoteFuncs}
                 \cup {<<r, f>> : f \in DistributedFuncs, r \in RemoteFuncs}
  /\ nominals = <<>>
  /\ Common

\* The nominal declarations: the DistributedActor protocol, NumProtocols more
\* protocols, each inheriting from some of the protocols declared before it,
\* then a class, a struct and an enum.
ProtocolLists ==
  {ps \in [1..(NumProtocols + 1) ->
             [kind : {"protocol"}, explicitDistributedActor : {FALSE},
              inherited : SUBSET (1..NumProtocols)]] :
     \A i \in 1..(NumProtocols + 1) : ps[i].inherited \subseteq 1..(i - 1)}

InitClassify ==
  /\ moduleLoaded = TRUE
  /\ classDecl = NoClass
  /\ members = <<>>
  /\ nominals \in {ps \o <<c,
                          [kind |-> "struct", explicitDistributedActor |-> FALSE,
                           inherited |-> {}],
                          [kind |-> "enum", explicitDistributedActor |-> FALSE,
                           inherited |-> {}]>> :
                     ps \in ProtocolLists, c \in ClassDecls}
  /\ Common

\* ensureDistributedModuleLoaded(decl), decl the class or one of its members.
EnsureDistributedModuleLoaded(d) ==
  /\ Len(history) < MaxCalls
  /\ LET r == ensureDistributedModuleLoaded(cache, d, moduleLoaded) IN
       /\ cache' = r.cache
       /\ diags' = diags \o r.emitted
       /\ history' = Append(history,
            Call("ensureDistributedModuleLoaded", d, TRUE, r.ret, r.emitted,
                 Len(members), Len(members), d \in DOMAIN cache))
  /\ UNCHANGED <<moduleLoaded, classDecl, members, nominals>>

\* TypeChecker::checkDistributedActor(decl) on the class.
CheckDistributedActor ==
  /\ Len(history) < MaxCalls
  /\ LET r == checkDistributedActor(cache, classDecl, members, moduleLoaded) IN
       /\ cache' = r.cache
       /\ members' = r.members
       /\ diags' = diags \o r.emitted
       /\ history' = Append(history,
            Call("checkDistributedActor", ClassId, TRUE, FALSE, r.emitted,
                 Len(members), Len(r.members), ClassId \in DOMAIN cache))
  /\ UNCHANGED <<moduleLoaded, classDecl, nominals>>

\* checkDistributedActorProperties(decl) on the class.
CheckDistributedActorProperties ==
  /\ Len(history) < MaxCalls
  /\ LET emitted == checkDistributedActorProperties(members) IN
       /\ diags' = diags \o emitted
       /\ history' = Append(history,
            Call("checkDistributedActorProperties", ClassId, TRUE, FALSE, emitted,
                 Len(members), Len(members), FALSE))
  /\ UNCHANGED <<moduleLoaded, classDecl, members, nominals, cache>>

\* checkDistributedActorConstructor(decl, ctor) on constructor c of the class.
CheckDistributedActorConstructor(c) ==
  /\ Len(history) < MaxCalls
  /\ members[c].kind = "ctor"
  /\ LET emitted == checkDistributedActorConstructor(classDecl, members, c) IN
       /\ diags' = diags \o emitted
       /\ history' = Append(history,
            Call("checkDistributedActorConstructor", c, TRUE, FALSE, emitted,
                 Len(members), Len(members), FALSE))
  /\ UNCHANGED <<moduleLoaded, classDecl, members, nominals, cache>>

\* checkDistributedFunction(func, diagnose) on distributed function f.
CheckDistributedFunction(f, diagnose) ==
  /\ Len(history) < MaxCalls
  /\ members[f].kind = "func"
  /\ IsDistributedFuncRequest_evaluate(members[f])
  /\ LET r == checkDistributedFunction(members, f, diagnose) IN
       /\ diags' = diags \o r.emitted
       /\ history' = Append(history,
            Call("checkDistributedFunction", f, diagnose, r.ret, r.emitted,
                 Len(members), Len(members), FALSE))
  /\ UNCHANGED <<moduleLoaded, classDecl, members, nominals, cache>>

\* nominal->isDistributedActor() on nominal declaration n.
IsDistributedActor(n) ==
  /\ Len(history) < MaxCalls
  /\ LET ret == IsDistributedActorRequest_evaluate(nominals, n, nominals[n]) IN
       history' = Append(history,
            Call("isDistributedActor", n, TRUE, ret, <<>>,
                 Len(members), Len(members), FALSE))
  /\ UNCHANGED <<moduleLoaded, classDecl, members, nominals, cache, diags>>

NextActor ==
  \/ \E d \in 0..Len(members) : EnsureDistributedModuleLoaded(d)
  \/ CheckDistributedActor
  \/ CheckDistributedActorProperties

NextCtor == \E c \in 1..Len(members) : CheckDistributedActorConstructor(c)

NextFunc ==
  \E f \in 1..Len(members), diagnose \in BOOLEAN :
    CheckDistributedFunction(f, diagnose)

NextClassify == \E n \in 1..Len(nominals) : IsDistributedActor(n)

SpecActor    == InitActor /\ [][NextActor]_vars
SpecCtor     == InitCtor /\ [][NextCtor]_vars
SpecFunc     == InitFunc /\ [][NextFunc]_vars
SpecClassify == InitClassify /\ [][NextClassify]_vars

\* ================================================================ claims
CallsOf(op) == {k \in 1..Len(history) : history[k].op = op}

MissingModule(decl) ==
  Diag("distributed_actor_needs_explicit_distributed_import", decl, "", "", 0)

IsCtorDiag(d) ==
  d.kind \in {"distributed_actor_designated_ctor_missing_transport_param",
              "distributed_actor_designated_ctor_must_have_one_transport_param"}

IsPropertyDiag(d) == d.kind = "distributed_actor_user_defined_special_property"

Codable(ty) == conformsToProtocol(ty, "Encodable") /\ conformsToProtocol(ty, "Decodable")

\* C1: with the _Distributed module not loaded, a first checkDistributedActor
\* call on a class emits exactly one MissingModule diagnostic, on the class,
\* and nothing else; the member list is unchanged and nothing is synthesized.
C1_GateShortCircuit ==
  ~moduleLoaded =>
    /\ \A k \in CallsOf("checkDistributedActor") :
         /\ history[k].after = history[k].before
         /\ ~history[k].cached => history[k].emitted = <<MissingModule(ClassId)>>
    /\ \A i \in 1..Len(members) : ~members[i].synthesized

C1_Witness ==
  /\ ~moduleLoaded
  /\ \E k \in CallsOf("checkDistributedActor") : ~history[k].cached
  /\ \E i \in 1..Len(members) :
       members[i].kind = "ctor" /\ members[i].designated /\ members[i].params = <<>>
  /\ \E i \in 1..Len(members) : members[i].kind = "var" /\ members[i].name = Id_id

\* The parameters of a member that are transport parameters.
TransportParams(member) ==
  {i \in 1..Len(member.params) :
     member.params[i].ty = protocolTy \/
     conformsToProtocol(member.params[i].ty, "ActorTransport")}

\* C2: for a designated initializer of a distributed actor the constructor
\* check depends only on the number k of transport parameters: k = 0 gives one
\* missing-transport diagnostic, k = 1 none, k >= 2 one diagnostic with count k.
C2_TransportCountPartition ==
  \A h \in CallsOf("checkDistributedActorConstructor") :
    LET ctor == members[history[h].decl]
        k    == Cardinality(TransportParams(ctor))
    IN  (classDecl.explicitDistributedActor /\ ctor.designated) =>
          /\ k = 0 => history[h].emitted =
               <<Diag("distributed_actor_designated_ctor_missing_transport_param",
                      history[h].decl, ctor.name, "", 0)>>
          /\ k = 1 => history[h].emitted = <<>>
          /\ k >= 2 => history[h].emitted =
               <<Diag("distributed_actor_designated_ctor_must_have_one_transport_param",
                      history[h].decl, ctor.name, "", k)>>

C2_Witness ==
  \E h \in CallsOf("checkDistributedActorConstructor") :
    LET ctor == members[history[h].decl] IN
      /\ classDecl.explicitDistributedActor /\ ctor.designated
      /\ Len(ctor.params) = 3
      /\ ctor.params[1].ty = "String"
      /\ ctor.params[2].ty = "ActorTransport"
      /\ ctor.params[3].ty = "SomeTransport"
      /\ Len(history[h].emitted) = 1 /\ history[h].emitted[1].n = 2

\* The parameters of a function that lack Encodable or Decodable.
NonCodableParams(func) ==
  {i \in 1..Len(func.params) : ~Codable(func.params[i].ty)}

\* C3: checkDistributedFunction with diagnose = true emits at most one
\* diagnostic, and when parameters are not codable it is the diagnostic of the
\* first of them in declaration order.
C3_FirstOffendingParameterOnly ==
  \A h \in CallsOf("checkDistributedFunction") :
    LET func == members[history[h].decl]
        bad  == NonCodableParams(func)
    IN  history[h].diagnose =>
          /\ Len(history[h].emitted) <= 1
          /\ bad # {} =>
               LET first == CHOOSE i \in bad : \A j \in bad : i <= j IN
                 history[h].emitted =
                   <<Diag("distributed_actor_func_param_not_codable",
                          history[h].decl, func.params[first].name,
                          func.params[first].ty, 0)>>

C3_Witness ==
  \E h \in CallsOf("checkDistributedFunction") :
    LET func == members[history[h].decl] IN
      /\ history[h].diagnose
      /\ Len(func.params) = 2
      /\ func.params[1].ty = "EncOnly"
      /\ func.params[2].ty = "Opaque"
      /\ func.result = "Opaque"
      /\ Len(history[h].emitted) = 1

\* C4: checkDistributedFunction returns the same boolean with diagnose = false
\* and diagnose = true on the same function, and emits nothing with
\* diagnose = false.
C4_DiagnoseDoesNotChangeResult ==
  /\ \A h, k \in CallsOf("checkDistributedFunction") :
       history[h].decl = history[k].decl => history[h].ret = history[k].ret
  /\ \A h \in CallsOf("checkDistributedFunction") :
       ~history[h].diagnose => history[h].emitted = <<>>
  /\ (\A h \in 1..Len(history) : ~history[h].diagnose) => diags = <<>>

C4_Witness ==
  \E h, k \in CallsOf("checkDistributedFunction") :
    /\ history[h].decl = history[k].decl
    /\ ~history[h].diagnose /\ history[k].diagnose
    /\ history[h].ret
    /\ Len(history[k].emitted) = 1
    /\ history[k].emitted[1].kind = "distributed_actor_remote_func_implemented_manually"

\* The properties with a reserved name among the first n members.
ReservedProperties(n) ==
  {i \in 1..n : members[i].kind = "var" /\
                members[i].name \in {Id_actorTransport, Id_id}}

\* C5: checkDistributedActorProperties emits one diagnostic for every property
\* with a reserved name, anchored on that property and in member order, and
\* nothing for methods or for properties with other names.
C5_OneDiagnosticPerReservedProperty ==
  \A h \in CallsOf("checkDistributedActorProperties") :
    LET reserved == ReservedProperties(history[h].before)
        emitted  == history[h].emitted
    IN  /\ Len(emitted) = Cardinality(reserved)
        /\ \A j \in 1..Len(emitted) :
             /\ emitted[j].anchor \in reserved
             /\ emitted[j] =
                  Diag("distributed_actor_user_defined_special_property",
                       emitted[j].anchor, members[emitted[j].anchor].name, "", 0)
        /\ \A i \in reserved : \E j \in 1..Len(emitted) : emitted[j].anchor = i
        /\ \A i, j \in 1..Len(emitted) :
             i < j => emitted[i].anchor < emitted[j].anchor

C5_Witness ==
  \E h \in CallsOf("checkDistributedActorProperties") :
    /\ history[h].before = 2
    /\ members[1].kind = "var" /\ members[1].name = Id_id
    /\ members[2].kind = "var" /\ members[2].name = Id_actorTransport
    /\ Len(history[h].emitted) = 2

\* The calls that run the gate on a declaration.
GateCalls(d) ==
  {k \in 1..Len(history) :
     \/ history[k].op = "ensureDistributedModuleLoaded" /\ history[k].decl = d
     \/ history[k].op = "checkDistributedActor" /\ d = ClassId}

\* C6: with the module not loaded, every declaration has one MissingModule
\* diagnostic if the gate was asked about it and none otherwise; the first
\* gate call on a declaration emits it, whatever was asked about other
\* declarations, and a repeated call returns the first result and emits nothing.
C6_GateCachedPerDeclaration ==
  ~moduleLoaded =>
    /\ \A d \in 0..Len(members) :
         Cardinality({i \in 1..Len(diags) : diags[i] = MissingModule(d)})
           = IF GateCalls(d) = {} THEN 0 ELSE 1
    /\ \A d \in 0..Len(members) : \A k \in GateCalls(d) :
         /\ history[k].cached <=> \E j \in GateCalls(d) : j < k
         /\ history[k].emitted =
              IF history[k].cached THEN <<>> ELSE <<MissingModule(d)>>
         /\ history[k].op = "ensureDistributedModuleLoaded" => ~history[k].ret

C6_Witness ==
  /\ ~moduleLoaded
  /\ Len(history) = 2
  /\ history[1].op = "ensureDistributedModuleLoaded" /\ history[1].decl = ClassId
  /\ history[2].op = "checkDistributedActor"
  /\ history[2].emitted = <<>>
  /\ diags = <<MissingModule(ClassId)>>

\* C7: checkDistributedFunction returns true exactly when a parameter is not
\* codable, or the result is neither void nor codable, or the class declares a
\* hand-written _remote counterpart; it emits nothing when it returns false,
\* and reports the counterpart only when parameters and result passed.
C7_ProblemIffNotCodableOrManualRemote ==
  \A h \in CallsOf("checkDistributedFunction") :
    LET func == members[history[h].decl]
        badParam  == NonCodableParams(func) # {}
        badResult == func.result # "Void" /\ ~Codable(func.result)
        manual    == \E j \in 1..Len(members) :
                       /\ members[j].kind = "func"
                       /\ members[j].name = "_remote_" \o func.name
                       /\ ~members[j].synthesized
    IN  /\ history[h].ret <=> (badParam \/ badResult \/ manual)
        /\ ~history[h].ret => history[h].emitted = <<>>
        /\ (\E i \in 1..Len(history[h].emitted) :
              history[h].emitted[i].kind =
                "distributed_actor_remote_func_implemented_manually")
             => ~badParam /\ ~badResult

C7_Witness ==
  \E h \in CallsOf("checkDistributedFunction") :
    LET func == members[history[h].decl] IN
      /\ func.result = "Void"
      /\ Len(func.params) = 2
      /\ \E j \in 1..Len(members) :
           members[j].name = "_remote_f" /\ members[j].synthesized
      /\ history[h].diagnose
      /\ ~history[h].ret

\* C8 as stated: within one checkDistributedActor call whose gate passes, a
\* diagnostic anchored on an earlier member is emitted before one anchored on
\* a later member.
C8_MemberOrder ==
  moduleLoaded =>
    \A h \in CallsOf("checkDistributedActor") :
      \A i, j \in 1..Len(history[h].emitted) :
        history[h].emitted[i].anchor < history[h].emitted[j].anchor => i < j

\* C8 amended: within one checkDistributedActor call whose gate passes, every
\* constructor diagnostic is emitted before every property diagnostic, and two
\* diagnostics of the same group are emitted in member order.
C8_ConstructorsThenProperties ==
  moduleLoaded =>
    \A h \in CallsOf("checkDistributedActor") :
      LET emitted == history[h].emitted IN
        /\ \A i \in 1..Len(emitted) : IsCtorDiag(emitted[i]) \/ IsPropertyDiag(emitted[i])
        /\ \A i, j \in 1..Len(emitted) :
             /\ (IsCtorDiag(emitted[i]) /\ IsPropertyDiag(emitted[j])) => i < j
             /\ (IsCtorDiag(emitted[i]) <=> IsCtorDiag(emitted[j])) =>
                  (emitted[i].anchor < emitted[j].anchor => i < j)

C8_Witness ==
  /\ moduleLoaded
  /\ \E h \in CallsOf("checkDistributedActor") :
       /\ Len(history[h].emitted) = 2
       /\ IsCtorDiag(history[h].emitted[1]) /\ history[h].emitted[1].anchor = 2
       /\ IsPropertyDiag(history[h].emitted[2]) /\ history[h].emitted[2].anchor = 1

\* C9: checkDistributedActorConstructor emits nothing for a convenience
\* initializer and for any constructor of a class that is not a distributed
\* actor, whatever the parameters are.
C9_NoOpUnlessDesignatedInitOfActor ==
  \A h \in CallsOf("checkDistributedActorConstructor") :
    (~classDecl.explicitDistributedActor \/ ~members[history[h].decl].designated)
      => history[h].emitted = <<>> /\ diags = <<>>

C9_Witness ==
  \E h \in CallsOf("checkDistributedActorConstructor") :
    LET ctor == members[history[h].decl] IN
      /\ classDecl.explicitDistributedActor
      /\ ~ctor.designated
      /\ Cardinality(TransportParams(ctor)) = 2
      /\ history[h].emitted = <<>>

\* The protocols that are DistributedActor or inherit from it, built upwards
\* from DistributedActor.
RECURSIVE ActorProtocols(_)
ActorProtocols(S) ==
  LET T == S \cup {p \in 1..Len(nominals) :
                     nominals[p].kind = "protocol" /\ nominals[p].inherited \cap S # {}}
  IN  IF T = S THEN S ELSE ActorProtocols(T)

\* C10: isDistributedActor is true exactly for the DistributedActor protocol,
\* the protocols inheriting from it, directly or not, and the classes marked
\* as distributed actors; it emits no diagnostic, and so gives the same result
\* every time.
C10_Classification ==
  /\ \A h \in CallsOf("isDistributedActor") :
       LET n == history[h].decl IN
         history[h].ret <=>
           \/ nominals[n].kind = "protocol" /\ n \in ActorProtocols({DistributedActorDecl})
           \/ nominals[n].kind = "class" /\ nominals[n].explicitDistributedActor
  /\ \A h, k \in CallsOf("isDistributedActor") :
       history[h].decl = history[k].decl => history[h].ret = history[k].ret
  /\ CallsOf("isDistributedActor") # {} => diags = <<>>

C10_Witness ==
  /\ Len(history) = 2
  /\ history[1].op = "isDistributedActor" /\ history[2].op = "isDistributedActor"
  /\ history[1].decl = 3 /\ history[2].decl = 3
  /\ nominals[3].inherited = {2}
  /\ nominals[2].inherited = {DistributedActorDecl}
  /\ history[1].ret /\ history[2].ret

====
